---- MODULE Spec2Model ----
(***************************************************************************)
(* Model of pw-to-pr.py: the Patchwork-to-pull-request reconciliation run. *)
(* Strings are sequences of one-character strings, so that formatting a PR *)
(* title, searching it and parsing it back are computed, not assumed.      *)
(***************************************************************************)
EXTENDS Integers, Sequences, FiniteSets, TLC

\* ------------------------------------------------------------------------
\* Bounds of the model
\* ------------------------------------------------------------------------
\* number of runs of main() that are started one after the other
MaxRuns == 2
\* number of patches of the longest series
MaxPatches == 2
\* number of patches of the series handed to the relevance filter on its own
MaxDiffs == 2

\* ------------------------------------------------------------------------
\* Strings
\* ------------------------------------------------------------------------
NONE == <<"<None>">>

UpperChars == <<"A","B","C","D","E","F","G","H","I","J","K","L","M",
                "N","O","P","Q","R","S","T","U","V","W","X","Y","Z">>

LowerChars == <<"a","b","c","d","e","f","g","h","i","j","k","l","m",
                "n","o","p","q","r","s","t","u","v","w","x","y","z">>

DigitChars == <<"0","1","2","3","4","5","6","7","8","9">>

\* str.lower() of one character (what re.IGNORECASE compares)
Lower(c) ==
    IF \E i \in 1..Len(UpperChars) : UpperChars[i] = c
    THEN LowerChars[CHOOSE i \in 1..Len(UpperChars) : UpperChars[i] = c]
    ELSE c

IsDigit(c) == \E i \in 1..Len(DigitChars) : DigitChars[i] = c

DigitVal(c) == (CHOOSE i \in 1..Len(DigitChars) : DigitChars[i] = c) - 1

\* s[i:] with a 0-based index i
From(s, i) == SubSeq(s, i + 1, Len(s))

\* whether sub occurs in s at the 0-based position i
MatchAt(sub, s, i) ==
    /\ i + Len(sub) <= Len(s)
    /\ \A j \in 1..Len(sub) : s[i + j] = sub[j]

\* whether sub occurs in s at the 0-based position i, ignoring case
MatchAtNoCase(sub, s, i) ==
    /\ i + Len(sub) <= Len(s)
    /\ \A j \in 1..Len(sub) : Lower(s[i + j]) = Lower(sub[j])

\* str.find(sub): the lowest 0-based index where sub occurs, -1 if none
Find(s, sub) ==
    IF \E i \in 0..Len(s) : MatchAt(sub, s, i)
    THEN CHOOSE i \in 0..Len(s) :
             /\ MatchAt(sub, s, i)
             /\ \A k \in 0..(i - 1) : ~MatchAt(sub, s, k)
    ELSE -1

\* a Python value used as a condition: an int is true unless it is 0
Truthy(n) == n # 0

\* re.search(pat, s, re.IGNORECASE) for a pattern of literal characters
SearchNoCase(pat, s) == \E i \in 0..Len(s) : MatchAtNoCase(pat, s, i)

\* re.search(r'^...', s): the literal prefix anchored at the start
StartsWith(s, prefix) == MatchAt(prefix, s, 0)

RECURSIVE Str(_)
\* str(n) of a non-negative int
Str(n) ==
    IF n < 10 THEN <<DigitChars[n + 1]>>
    ELSE Str(n \div 10) \o <<DigitChars[(n % 10) + 1]>>

RECURSIVE ParseInt(_)
\* int(s) of a non-empty string of digits
ParseInt(s) ==
    IF Len(s) = 1 THEN DigitVal(s[1])
    ELSE 10 * ParseInt(SubSeq(s, 1, Len(s) - 1)) + DigitVal(s[Len(s)])

RECURSIVE Split(_, _)
\* s.split(sep) for a one-character separator
Split(s, sep) ==
    LET i == Find(s, <<sep>>)
    IN  IF i = -1 THEN <<s>>
        ELSE <<SubSeq(s, 1, i)>> \o Split(From(s, i + 1), sep)

RECURSIVE JoinLines(_)
\* "\n".join(lines)
JoinLines(lines) ==
    IF Len(lines) = 0 THEN <<>>
    ELSE IF Len(lines) = 1 THEN lines[1]
    ELSE lines[1] \o <<"\n">> \o JoinLines(Tail(lines))

RECURSIVE Concat(_)
\* the concatenation of a sequence of lists
Concat(ls) == IF Len(ls) = 0 THEN <<>> ELSE ls[1] \o Concat(Tail(ls))

\* ------------------------------------------------------------------------
\* Constants of the program
\* ------------------------------------------------------------------------
PR_TITLE_PREFIX == <<"P","W","_","S","I","D">>

\* pw_submit_check states: 1 pass, 3 fail
CHECK_PASS == 1
CHECK_FAIL == 3

\* ------------------------------------------------------------------------
\* Relevance filter (patch_get_file_list, series_get_file_list,
\* filter_repo_type)
\* ------------------------------------------------------------------------
OLD_FILE_MARK == <<"-","-","-"," ">>
DEV_NULL == <<"d","e","v","/","n","u","l","l">>
SLASH == <<"/">>

\* what one line of a diff adds to the file list (the body of the for loop)
line_file_list(line) ==
    IF StartsWith(line, OLD_FILE_MARK)
    THEN IF Truthy(Find(line, DEV_NULL))
         THEN <<>>
         ELSE <<From(line, Find(line, SLASH) + 1)>>
    ELSE <<>>

patch_get_file_list(patch) ==
    IF patch = NONE THEN <<>>
    ELSE LET lines == Split(patch, "\n")
         IN  Concat([i \in 1..Len(lines) |-> line_file_list(lines[i])])

\* diffs: the 'diff' of each patch of the series, in series order
series_get_file_list(diffs) ==
    Concat([i \in 1..Len(diffs) |-> patch_get_file_list(diffs[i])])

\* whether some pattern of the list is found in the name (re.IGNORECASE)
any_pattern(patterns, name) ==
    \E i \in 1..Len(patterns) : SearchNoCase(patterns[i], name)

\* filter_repo_type with the include patterns looked at before the exclude
\* patterns
filter_repo_type_include_first(repo_detail, name, diffs, tree) ==
    IF any_pattern(repo_detail.include, name)
    THEN [ret |-> TRUE, derived |-> FALSE]
    ELSE IF any_pattern(repo_detail.exclude, name)
    THEN [ret |-> FALSE, derived |-> FALSE]
    ELSE LET file_list == series_get_file_list(diffs)
         IN  IF Len(file_list) = 0
             THEN [ret |-> FALSE, derived |-> TRUE]
             ELSE [ret |-> \A i \in 1..Len(file_list) : file_list[i] \in tree,
                   derived |-> TRUE]

\* filter_repo_type: ret is the value returned, derived tells whether the
\* call got as far as series_get_file_list (and so fetched the patches).
\* tree: the set of paths for which os.path.exists(src_dir/path) is true
filter_repo_type(repo_detail, name, diffs, tree) ==
    IF any_pattern(repo_detail.exclude, name)
    THEN [ret |-> FALSE, derived |-> FALSE]
    ELSE IF any_pattern(repo_detail.include, name)
    THEN [ret |-> TRUE, derived |-> FALSE]
    ELSE LET file_list == series_get_file_list(diffs)
         IN  IF Len(file_list) = 0
             THEN [ret |-> FALSE, derived |-> TRUE]
             ELSE [ret |-> \A i \in 1..Len(file_list) : file_list[i] \in tree,
                   derived |-> TRUE]

\* ------------------------------------------------------------------------
\* Pull-request titles (create_pr, github_pr_exist, get_pw_sid)
\* ------------------------------------------------------------------------
\* the title create_pr gives the pull request of a series
create_pr_title(id, name) ==
    <<"[">> \o PR_TITLE_PREFIX \o <<":">> \o Str(id) \o <<"]", " ">> \o name

\* github_pr_exist that finds no pull request
github_pr_exist_never(id, titles) == FALSE

\* github_pr_exist that compares the case of the letters and looks for the
\* prefix of the docstring of get_pw_sid
github_pr_exist_other_tag(id, titles) ==
    LET id_str == <<"P","W","_","S","_","I","D",":">> \o Str(id)
    IN  \E i \in 1..Len(titles) : \E k \in 0..Len(titles[i]) :
            MatchAt(id_str, titles[i], k)

\* titles: the titles of the cached list github_pulls
github_pr_exist(id, titles) ==
    LET id_str == PR_TITLE_PREFIX \o <<":">> \o Str(id)
    IN  \E i \in 1..Len(titles) : SearchNoCase(id_str, titles[i])

\* the number of digits s starts with
LeadingDigits(s) ==
    CHOOSE n \in 0..Len(s) :
        /\ \A j \in 1..n : IsDigit(s[j])
        /\ (n = Len(s) \/ ~IsDigit(s[n + 1]))

\* whether re.search(r'^\[PW_SID:([0-9]+)\]', pr_title) finds a match
has_pw_sid(pr_title) ==
    LET pre == <<"[">> \o PR_TITLE_PREFIX \o <<":">>
        rest == From(pr_title, Len(pre))
        n == LeadingDigits(rest)
    IN  /\ StartsWith(pr_title, pre)
        /\ n >= 1
        /\ n < Len(rest)
        /\ rest[n + 1] = "]"

get_pw_sid(pr_title) ==
    LET pre == <<"[">> \o PR_TITLE_PREFIX \o <<":">>
        rest == From(pr_title, Len(pre))
    IN  IF has_pw_sid(pr_title)
        THEN ParseInt(SubSeq(rest, 1, LeadingDigits(rest)))
        ELSE 0

\* ------------------------------------------------------------------------
\* The tracker's data, the configuration and the source tree of the runs
\* ------------------------------------------------------------------------
\* ids of the series the tracker may list; 1 is a decimal prefix of 12
SeriesIds == {1, 12}

\* a series that was active once and whose pull request may still be open
GoneSeriesIds == {2}

NumPatches(sid) == IF sid = 1 THEN MaxPatches ELSE 1

\* series['patches']: the ids of the patches of a series, in series order
series_patches(sid) == [k \in 1..NumPatches(sid) |-> 100 * sid + k]

PatchIds == UNION {{series_patches(sid)[k] : k \in 1..NumPatches(sid)} : sid \in SeriesIds}

NAME_BT == <<"b","t",":"," ","f","i","x">>
NAME_MISC == <<"m","i","s","c">>

\* the names a series may have on the tracker (NONE: "name": null)
SeriesNames == {NAME_BT, NAME_MISC, NONE}

\* patch['name'] of every patch on the tracker
PatchName == <<"b","t",":"," ","o","n","e">>

\* config['repo_details'][key_str] of the runs
RepoDetail == [include |-> <<<<"b","t">>>>, exclude |-> <<<<"e","z">>>>]


PATH_BAR == <<"f","o","o","/","b","a","r",".","c">>
PATH_X == <<"x",".","c">>

\* the paths that exist under src_dir
SrcTree == {PATH_BAR}

\* patch['diff'] of every patch on the tracker
PatchDiff == JoinLines(<<<<"-","-","-"," ","a","/","f","o","o","/","b","a","r",".","c">>, <<"+","+","+"," ","b","/","f","o","o","/","b","a","r",".","c">>>>)

CheckStates == {"pending", "success", "fail"}

\* ------------------------------------------------------------------------
\* State
\* ------------------------------------------------------------------------
VARIABLES
    pw_active,      \* tracker: ids of the series with a patch in the queried states
    pw_name,        \* tracker: series id -> series name
    pw_check,       \* tracker: patch id -> combined check state
    gh_pulls,       \* forge: PR number -> [title, state, head]
    gh_refs,        \* forge: the branches (heads/<name>) of the repository
    am_in_progress, \* working tree: a git am stopped and was not aborted
    run,            \* how many runs of main() were started
    pc,             \* where main() is
    args,           \* parse_args(): dry_run, ignore_check, no_update_check
    has_token,      \* 'PATCHWORK_TOKEN' in os.environ (the same in every run)
    github_pulls,   \* the cached list of open PRs (numbers, in list order)
    new_series,     \* the dict of get_new_series: <<[id, name], ...>> in key order
    si,             \* position of the for loop over new_series
    pi,             \* position of the for loop over series['patches']
    verdict,        \* the flag of the same name
    it,             \* what the current iteration of the series loop has done
    ci,             \* position of the for loop over github_pulls
    closed,         \* PR numbers github_close_pr was called on in this run
    created,        \* series ids create_pr was called for in this run
    rerun,          \* the run before was a full run (not a dry run, ended
                    \* normally) and the tracker's series set is as it was
    series_changed, \* the tracker's series set changed since the last run
    reh,            \* a rehearsal: a dry run, then a full run that gets the
                    \* same answers from the tracker, the forge and git
    flt,            \* a call of the relevance filter on its own
    pg,             \* a call of pw_get_patches_by_state on its own
    idx             \* a call of get_new_series on its own

vars == <<pw_active, pw_name, pw_check, gh_pulls, gh_refs, am_in_progress, run,
          pc, args, has_token, github_pulls, new_series, si, pi, verdict, it,
          ci, closed, created, rerun, series_changed, reh, flt, pg, idx>>

\* the calls made on their own, outside main()
alone_vars == <<flt, pg, idx>>

tracker_vars == <<pw_active, pw_name, pw_check>>
forge_vars == <<gh_pulls, gh_refs>>
run_vars == <<run, args, has_token, github_pulls, rerun, reh>>
loop_vars == <<new_series, si, pi, verdict, it, ci, closed, created>>
pos_vars == <<new_series, si, pi, verdict, ci, closed, created>>

\* ------------------------------------------------------------------------
\* Helpers of the run
\* ------------------------------------------------------------------------
\* what one iteration of the series loop has done so far: the guards it
\* evaluated, the check state and the name they saw, and the calls it made
IterNone ==
    [sid |-> 0, decision |-> "none", am_failed |-> 0, fail_posts |-> <<>>, pass_posts |-> <<>>,
     aborts |-> 0, emails |-> 0, pushes |-> 0, creates |-> 0,
     guards |-> <<>>, check_read |-> "none", filter_name |-> <<>>,
     checkouts |-> 0, fetched |-> <<>>, am_tried |-> <<>>, check_calls |-> <<>>,
     last_post |-> "none", push_ok |-> FALSE, checked_out |-> <<>>]

\* no rehearsal: every call is answered as the tracker, the forge and git
\* please
RehOff == [on |-> FALSE]

\* the call named by point succeeds, or fails, in this run
Ok(point) == IF reh.on THEN point \notin reh.fail ELSE TRUE
Fails(point) == IF reh.on THEN point \in reh.fail ELSE TRUE

FltNone == [pc |-> "none"]
PgNone == [pc |-> "none"]
IdxNone == [pc |-> "none"]

RECURSIVE PickSeq(_, _, _)
\* the elements of seq at the positions in idxs, in order, from position i on
PickSeq(seq, idxs, i) ==
    IF i > Len(seq) THEN <<>>
    ELSE (IF i \in idxs THEN <<seq[i]>> ELSE <<>>) \o PickSeq(seq, idxs, i + 1)

\* pull requests that may be open when the first run starts: one left by an
\* earlier run for series 1, one of a series that is gone, one opened by hand
InitPullCandidates ==
    << [title |-> create_pr_title(1, NAME_BT), state |-> "open", head |-> Str(1)],
       [title |-> create_pr_title(2, <<"o","l","d">>), state |-> "open", head |-> Str(2)],
       [title |-> <<"F","i","x">>, state |-> "open", head |-> <<"f","i","x">>] >>

InitPulls ==
    {PickSeq(InitPullCandidates, idxs, 1) :
        idxs \in SUBSET (1..Len(InitPullCandidates))}

Heads(pulls) == {pulls[n].head : n \in 1..Len(pulls)}

OpenPulls(pulls) == {n \in 1..Len(pulls) : pulls[n].state = "open"}

RECURSIVE Descending(_)
\* the numbers of a set, highest first
Descending(ns) ==
    IF ns = {} THEN <<>>
    ELSE LET m == CHOOSE x \in ns : \A y \in ns : y <= x
         IN  <<m>> \o Descending(ns \ {m})

RECURSIVE Ascending(_)
Ascending(ns) ==
    IF ns = {} THEN <<>>
    ELSE LET m == CHOOSE x \in ns : \A y \in ns : x <= y
         IN  <<m>> \o Ascending(ns \ {m})

\* github_repo.get_pulls(): the open pull requests, newest first
get_pulls(pulls) == Descending(OpenPulls(pulls))

\* the patches the tracker lists for the queried states, each naming its series
pw_patch_listing(active) ==
    LET order == Ascending(active)
    IN  Concat([i \in 1..Len(order) |->
                  [k \in 1..NumPatches(order[i]) |->
                      [id |-> series_patches(order[i])[k], series |-> <<order[i]>>]]])

Keys(dict) == {dict[i].id : i \in 1..Len(dict)}

RECURSIVE add_series_unseen_or_not(_, _, _)
add_series_unseen_or_not(dict, sids, names) ==
    IF Len(sids) = 0 THEN dict
    ELSE add_series_unseen_or_not(
             Append(dict, [id |-> sids[1], name |-> names[sids[1]]]),
             Tail(sids), names)

RECURSIVE add_series(_, _, _)
\* the inner loop of get_new_series over patch['series']
add_series(dict, sids, names) ==
    IF Len(sids) = 0 THEN dict
    ELSE IF sids[1] \notin Keys(dict)
    THEN add_series(Append(dict, [id |-> sids[1], name |-> names[sids[1]]]),
                    Tail(sids), names)
    ELSE add_series(dict, Tail(sids), names)

\* patch['series'], or nothing to go through: if 'series' not in patch:
\* continue
patch_series(patch) ==
    IF "series" \in DOMAIN patch THEN patch.series ELSE <<>>

RECURSIVE scan_patches(_, _, _)
\* the outer loop of get_new_series over the patches
scan_patches(dict, patches, names) ==
    IF Len(patches) = 0 THEN dict
    ELSE scan_patches(add_series(dict, patch_series(patches[1]), names),
                      Tail(patches), names)

\* names: what pw_get_series answers for each id
get_new_series(patches, names) == scan_patches(<<>>, patches, names)

\* the tracker's combined check state of a patch after one more check
pw_check_after(old, state) ==
    IF state = CHECK_FAIL \/ old = "fail" THEN "fail" ELSE "success"

\* the series of the current iteration and its patches
cur == new_series[si]
cur_patches == series_patches(cur.id)
cur_patch_is_first == cur_patches[1]

\* patch of the for loop over series['patches']
cur_patch == cur_patches[pi]

\* the titles of the cached list, in list order
pull_titles == [i \in 1..Len(github_pulls) |-> gh_pulls[github_pulls[i]].title]

\* the iteration of the series loop ends with this decision (continue)
ContinueWith(rec, decision) ==
    /\ it' = [rec EXCEPT !.decision = decision]
    /\ pc' = "loop"

Continue(decision) == ContinueWith(it, decision)

\* the iteration goes on at the next step
GoOnWith(rec, step) ==
    /\ it' = rec
    /\ pc' = step

GoOn(step) == GoOnWith(it, step)

\* an exception nobody catches ends the run
Raise ==
    /\ pc' = "crashed"
    /\ UNCHANGED <<tracker_vars, forge_vars, am_in_progress, run_vars, loop_vars,
                   series_changed, alone_vars>>

\* the call named by point raises
RaiseAt(point) == Fails(point) /\ Raise

\* the decision of the iteration that is over, and a pull request found to
\* have no series in the index, as a rehearsal keeps them
log_iteration ==
    IF reh.on /\ si > 0
    THEN [reh EXCEPT !.decisions = Append(@, <<it.sid, it.decision>>)]
    ELSE reh

log_selected(n) ==
    IF reh.on THEN [reh EXCEPT !.selected = @ \union {n}] ELSE reh

\* ------------------------------------------------------------------------
\* Initial states
\* ------------------------------------------------------------------------
MainInit ==
    /\ pw_active \in SUBSET SeriesIds
    /\ pw_name \in {f \in [SeriesIds -> SeriesNames] : f[12] # NONE}
    /\ pw_check = [p \in PatchIds |-> "pending"]
    /\ gh_pulls \in InitPulls
    /\ gh_refs = Heads(gh_pulls)
    /\ am_in_progress = FALSE
    /\ run = 0
    /\ pc = "idle"
    /\ args = [dry_run |-> FALSE, ignore_check |-> FALSE, no_update_check |-> FALSE]
    /\ has_token \in BOOLEAN
    /\ github_pulls = <<>>
    /\ new_series = <<>>
    /\ si = 0
    /\ pi = 0
    /\ verdict = TRUE
    /\ it = IterNone
    /\ ci = 0
    /\ closed = {}
    /\ created = {}
    /\ rerun = FALSE
    /\ series_changed = FALSE

Init == MainInit /\ reh = RehOff /\ flt = FltNone /\ pg = PgNone /\ idx = IdxNone

\* ------------------------------------------------------------------------
\* The environment between two runs
\* ------------------------------------------------------------------------
Between == pc \in {"idle", "done", "crashed"}

\* series come and go on the tracker (merged, superseded, newly posted)
TrackerUpdate ==
    /\ Between
    /\ run >= 1
    /\ run < MaxRuns
    /\ ~series_changed
    /\ \E a \in (SUBSET SeriesIds) \ {pw_active} : pw_active' = a
    /\ series_changed' = TRUE
    /\ UNCHANGED <<pw_name, pw_check, forge_vars, am_in_progress, run_vars, pc,
                   loop_vars, alone_vars>>

\* ------------------------------------------------------------------------
\* main()
\* ------------------------------------------------------------------------
\* parse_args, init_config, init_github
begin_run(a) ==
    /\ args' = a
    /\ github_pulls' = get_pulls(gh_pulls)
    /\ run' = run + 1
    /\ series_changed' = FALSE
    /\ new_series' = <<>>
    /\ si' = 0
    /\ pi' = 0
    /\ verdict' = TRUE
    /\ it' = IterNone
    /\ ci' = 0
    /\ closed' = {}
    /\ created' = {}
    /\ pc' = "discover"
    /\ UNCHANGED <<tracker_vars, forge_vars, am_in_progress, has_token, alone_vars>>

StartRun ==
    /\ Between
    /\ run < MaxRuns
    /\ \E d, i, n \in BOOLEAN :
           begin_run([dry_run |-> d, ignore_check |-> i, no_update_check |-> n])
    /\ rerun' = (pc = "done" /\ ~args.dry_run /\ ~series_changed)
    /\ reh' = reh

\* new_series = get_new_series(args.patch_state), and the early return
Discover ==
    /\ pc = "discover"
    /\ \/ RaiseAt(<<"get_patches", 0>>)
       \/ /\ Ok(<<"get_patches", 0>>)
          /\ new_series' = get_new_series(pw_patch_listing(pw_active), pw_name)
          /\ pc' = IF Len(new_series') = 0 THEN "done" ELSE "loop"
          /\ UNCHANGED <<tracker_vars, forge_vars, am_in_progress, run_vars, si, pi,
                         verdict, it, ci, closed, created, series_changed, alone_vars>>

\* for id in new_series: the next series
NextSeries ==
    /\ pc = "loop"
    /\ si < Len(new_series)
    /\ si' = si + 1
    /\ it' = [IterNone EXCEPT !.sid = new_series[si + 1].id]
    /\ pi' = 0
    /\ pc' = "checked"
    /\ reh' = log_iteration
    /\ UNCHANGED <<tracker_vars, forge_vars, am_in_progress, run, args, has_token,
                   github_pulls, rerun, new_series, verdict, ci, closed, created,
                   series_changed, alone_vars>>

SeriesChecked_never_skips ==
    /\ pc = "checked"
    /\ IF args.ignore_check
       THEN /\ GoOn("filter")
            /\ UNCHANGED <<tracker_vars, forge_vars, am_in_progress, run_vars,
                           pos_vars, series_changed, alone_vars>>
       ELSE \/ RaiseAt(<<"get_patch", cur_patches[1]>>)
            \/ /\ Ok(<<"get_patch", cur_patches[1]>>)
               /\ GoOnWith([it EXCEPT !.guards = Append(@, "series_checked"),
                                      !.check_read = pw_check[cur_patches[1]]],
                           "filter")
               /\ UNCHANGED <<tracker_vars, forge_vars, am_in_progress, run_vars,
                              pos_vars, series_changed, alone_vars>>

\* if not args.ignore_check and series_checked(series): continue
SeriesChecked ==
    /\ pc = "checked"
    /\ IF args.ignore_check
       THEN /\ GoOn("filter")
            /\ UNCHANGED <<tracker_vars, forge_vars, am_in_progress, run_vars,
                           pos_vars, series_changed, alone_vars>>
       ELSE \/ RaiseAt(<<"get_patch", cur_patches[1]>>)
            \/ /\ Ok(<<"get_patch", cur_patches[1]>>)
               /\ LET rec == [it EXCEPT !.guards = Append(@, "series_checked"),
                                         !.check_read = pw_check[cur_patches[1]]]
                  IN  IF pw_check[cur_patches[1]] = "pending"
                      THEN GoOnWith(rec, "filter")
                      ELSE ContinueWith(rec, "checked")
               /\ UNCHANGED <<tracker_vars, forge_vars, am_in_progress, run_vars,
                              pos_vars, series_changed, alone_vars>>

normal_name_keeps_none(series) == series.name

\* series['name'] after the None check
normal_name(series) == IF series.name = NONE THEN PatchName ELSE series.name

\* the None check of the name, then filter_repo_type
FilterSeries ==
    /\ pc = "filter"
    /\ LET name == normal_name(cur)
           diffs == [k \in 1..Len(cur_patches) |-> PatchDiff]
           r == filter_repo_type(RepoDetail, name, diffs, SrcTree)
       IN  \/ /\ r.derived
              /\ RaiseAt(<<"get_patch", cur_patches[1]>>)
           \/ /\ r.derived => Ok(<<"get_patch", cur_patches[1]>>)
              /\ new_series' = [new_series EXCEPT ![si].name = name]
              /\ LET rec == [it EXCEPT !.guards = Append(@, "filter_repo_type"),
                                       !.filter_name = name]
                 IN  IF r.ret THEN GoOnWith(rec, "prexist")
                     ELSE ContinueWith(rec, "irrelevant")
              /\ UNCHANGED <<tracker_vars, forge_vars, am_in_progress, run_vars, si,
                             pi, verdict, ci, closed, created, series_changed, alone_vars>>

\* if github_pr_exist(id): continue
PrExist ==
    /\ pc = "prexist"
    /\ LET rec == [it EXCEPT !.guards = Append(@, "github_pr_exist")]
       IN  IF github_pr_exist(cur.id, pull_titles)
           THEN ContinueWith(rec, "pr_exists")
           ELSE GoOnWith(rec, "co_base")
    /\ UNCHANGED <<tracker_vars, forge_vars, am_in_progress, run_vars, pos_vars,
                   series_changed, alone_vars>>

\* args.branch, by its default
BASE_BRANCH == <<"w", "o", "r", "k", "f", "l", "o", "w">>

\* the iteration after a call of git_checkout that returned ok
git_checkout(branch, create_branch, ok) ==
    [it EXCEPT !.checkouts = @ + 1,
               !.checked_out = Append(@, [branch |-> branch,
                                          create_branch |-> create_branch,
                                          ok |-> ok])]

\* git_checkout(args.branch, src_dir)
CheckoutBase ==
    /\ pc = "co_base"
    /\ \/ /\ Ok(<<"checkout", cur.id>>)
          /\ GoOnWith(git_checkout(BASE_BRANCH, FALSE, TRUE), "co_new")
       \/ /\ Fails(<<"checkout", cur.id>>)
          /\ ContinueWith(git_checkout(BASE_BRANCH, FALSE, FALSE), "checkout_failed")
    /\ UNCHANGED <<tracker_vars, forge_vars, am_in_progress, run_vars, pos_vars,
                   series_changed, alone_vars>>

CheckoutNew_ignores_failure ==
    /\ pc = "co_new"
    /\ \/ /\ Ok(<<"checkout_b", cur.id>>)
          /\ GoOnWith(git_checkout(Str(cur.id), TRUE, TRUE), "fetch")
       \/ /\ Fails(<<"checkout_b", cur.id>>)
          /\ GoOnWith(git_checkout(Str(cur.id), TRUE, FALSE), "fetch")
    /\ pi' = 1
    /\ verdict' = TRUE
    /\ UNCHANGED <<tracker_vars, forge_vars, am_in_progress, run_vars, new_series,
                   si, ci, closed, created, series_changed, alone_vars>>

\* git_checkout(str(id), src_dir, create_branch=True), then verdict = True
\* and the first patch of the series
CheckoutNew ==
    /\ pc = "co_new"
    /\ \/ /\ Ok(<<"checkout_b", cur.id>>)
          /\ GoOnWith(git_checkout(Str(cur.id), TRUE, TRUE), "fetch")
          /\ pi' = 1
          /\ verdict' = TRUE
       \/ /\ Fails(<<"checkout_b", cur.id>>)
          /\ ContinueWith(git_checkout(Str(cur.id), TRUE, FALSE), "checkout_failed")
          /\ UNCHANGED <<pi, verdict>>
    /\ UNCHANGED <<tracker_vars, forge_vars, am_in_progress, run_vars, new_series,
                   si, ci, closed, created, series_changed, alone_vars>>

\* resp = requests_url(patch['mbox']) and saving the patch
FetchMbox ==
    /\ pc = "fetch"
    /\ \/ RaiseAt(<<"get_mbox", cur_patch>>)
       \/ /\ Ok(<<"get_mbox", cur_patch>>)
          /\ pc' = "am"
          /\ it' = [it EXCEPT !.fetched = Append(@, cur_patch)]
          /\ UNCHANGED <<tracker_vars, forge_vars, am_in_progress, run_vars,
                         pos_vars, series_changed, alone_vars>>

\* (ret, stdout, stderr) = git_am(patch_path, src_dir)
GitAm ==
    /\ pc = "am"
    /\ \/ /\ Ok(<<"am", cur_patch>>)
          /\ pc' = "check_pass"
          /\ it' = [it EXCEPT !.am_tried = Append(@, cur_patch)]
          /\ UNCHANGED <<am_in_progress, verdict>>
       \/ /\ Fails(<<"am", cur_patch>>)
          /\ pc' = "check_fail"
          /\ verdict' = FALSE
          /\ am_in_progress' = TRUE
          /\ it' = [it EXCEPT !.am_tried = Append(@, cur_patch),
                              !.am_failed = pi]
    /\ UNCHANGED <<tracker_vars, forge_vars, run_vars, new_series, si, pi, ci,
                   closed, created, series_changed, alone_vars>>


pw_submit_check_without_token_test(patch_id, state, go_on) ==
    LET called == [it EXCEPT !.check_calls = Append(@, <<patch_id, state>>)]
        posted == IF state = CHECK_FAIL
                  THEN [called EXCEPT !.fail_posts = Append(@, patch_id)]
                  ELSE [called EXCEPT !.pass_posts = Append(@, patch_id)]
    IN  \/ /\ Ok(<<"post", patch_id>>)
           /\ pw_check' = [pw_check EXCEPT ![patch_id] = pw_check_after(@, state)]
           /\ it' = [posted EXCEPT !.last_post = "201"]
           /\ pc' = go_on
        \/ /\ Fails(<<"post", patch_id>>)
           /\ pc' = "crashed"
           /\ it' = [posted EXCEPT !.last_post = "error"]
           /\ UNCHANGED pw_check

\* pw_submit_check(patch_id, state, ...) and what follows it at go_on:
\* without a token nothing is posted; a POST is answered 201 or not
pw_submit_check(patch_id, state, go_on) ==
    LET called == [it EXCEPT !.check_calls = Append(@, <<patch_id, state>>)]
        posted == IF state = CHECK_FAIL
                  THEN [called EXCEPT !.fail_posts = Append(@, patch_id)]
                  ELSE [called EXCEPT !.pass_posts = Append(@, patch_id)]
    IN  IF ~has_token
        THEN /\ pc' = go_on
             /\ it' = called
             /\ UNCHANGED pw_check
        ELSE \/ /\ Ok(<<"post", patch_id>>)
                /\ pw_check' = [pw_check EXCEPT
                                   ![patch_id] = pw_check_after(@, state)]
                /\ it' = [posted EXCEPT !.last_post = "201"]
                /\ pc' = go_on
             \/ /\ Fails(<<"post", patch_id>>)
                /\ pc' = "crashed"
                /\ it' = [posted EXCEPT !.last_post = "error"]
                /\ UNCHANGED pw_check

skip_submit_ignores_dry_run == args.no_update_check

\* if args.dry_run or args.no_update_check: the check is not submitted
skip_submit == args.dry_run \/ args.no_update_check

\* git am failed: pw_submit_check(patch['id'], 3, ...) unless a flag skips it
SubmitFail ==
    /\ pc = "check_fail"
    /\ IF skip_submit
       THEN /\ pc' = "abort"
            /\ UNCHANGED <<pw_check, it>>
       ELSE pw_submit_check(cur_patch, CHECK_FAIL, "abort")
    /\ UNCHANGED <<pw_active, pw_name, forge_vars, am_in_progress, run_vars,
                   new_series, si, pi, verdict, ci, closed, created,
                   series_changed, alone_vars>>

AmAbort_without_break ==
    /\ pc = "abort"
    /\ am_in_progress' = FALSE
    /\ it' = [it EXCEPT !.aborts = @ + 1]
    /\ pc' = IF pi < Len(cur_patches) THEN "fetch" ELSE "verdict"
    /\ pi' = IF pi < Len(cur_patches) THEN pi + 1 ELSE pi
    /\ UNCHANGED <<tracker_vars, forge_vars, run_vars, new_series, si, verdict,
                   ci, closed, created, series_changed, alone_vars>>

\* git_am_abort(src_dir), the email body, break
AmAbort ==
    /\ pc = "abort"
    /\ am_in_progress' = FALSE
    /\ it' = [it EXCEPT !.aborts = @ + 1]
    /\ pc' = "verdict"
    /\ UNCHANGED <<tracker_vars, forge_vars, run_vars, new_series, si, pi, verdict,
                   ci, closed, created, series_changed, alone_vars>>

\* git am succeeded: pw_submit_check(patch['id'], 1, ...) unless a flag skips
\* it, then the next patch of the series
SubmitPass ==
    /\ pc = "check_pass"
    /\ LET go_on == IF pi < Len(cur_patches) THEN "fetch" ELSE "verdict"
       IN  IF skip_submit
           THEN /\ pc' = go_on
                /\ UNCHANGED <<pw_check, it>>
           ELSE pw_submit_check(cur_patch, CHECK_PASS, go_on)
    /\ pi' = IF pc' = "fetch" THEN pi + 1 ELSE pi
    /\ UNCHANGED <<pw_active, pw_name, forge_vars, am_in_progress, run_vars,
                   new_series, si, verdict, ci, closed, created, series_changed,
                   alone_vars>>

\* if not verdict: email_compose(...) unless dry_run; continue
Notify ==
    /\ pc = "verdict"
    /\ ~verdict
    /\ it' = [it EXCEPT !.decision = "applied_fail",
                        !.emails = IF args.dry_run THEN @ ELSE @ + 1]
    /\ pc' = "loop"
    /\ UNCHANGED <<tracker_vars, forge_vars, am_in_progress, run_vars, new_series,
                   si, pi, verdict, ci, closed, created, series_changed, alone_vars>>

\* every patch applied: on to the push unless dry_run
Applied ==
    /\ pc = "verdict"
    /\ verdict
    /\ it' = [it EXCEPT !.decision = "applied_success"]
    /\ pc' = IF args.dry_run THEN "loop" ELSE "push"
    /\ UNCHANGED <<tracker_vars, forge_vars, am_in_progress, run_vars, pos_vars,
                   series_changed, alone_vars>>

GitPush_ignores_failure ==
    /\ pc = "push"
    /\ \/ /\ Ok(<<"push", cur.id>>)
          /\ gh_refs' = gh_refs \union {Str(cur.id)}
          /\ it' = [it EXCEPT !.pushes = @ + 1, !.push_ok = TRUE]
       \/ /\ Fails(<<"push", cur.id>>)
          /\ it' = [it EXCEPT !.pushes = @ + 1]
          /\ UNCHANGED gh_refs
    /\ pc' = "create"
    /\ UNCHANGED <<tracker_vars, gh_pulls, am_in_progress, run_vars, new_series,
                   si, pi, verdict, ci, closed, created, series_changed, alone_vars>>

\* git_push('origin', str(id), src_dir)
GitPush ==
    /\ pc = "push"
    /\ \/ /\ Ok(<<"push", cur.id>>)
          /\ gh_refs' = gh_refs \union {Str(cur.id)}
          /\ it' = [it EXCEPT !.pushes = @ + 1, !.push_ok = TRUE]
          /\ pc' = "create"
       \/ /\ Fails(<<"push", cur.id>>)
          /\ pc' = "loop"
          /\ it' = [it EXCEPT !.pushes = @ + 1]
          /\ UNCHANGED gh_refs
    /\ UNCHANGED <<tracker_vars, gh_pulls, am_in_progress, run_vars, new_series,
                   si, pi, verdict, ci, closed, created, series_changed, alone_vars>>

\* create_pr(series, args.branch, str(id))
CreatePr ==
    /\ pc = "create"
    /\ \/ RaiseAt(<<"create", cur.id>>)
       \/ /\ Ok(<<"create", cur.id>>)
          /\ gh_pulls' = Append(gh_pulls,
                               [title |-> create_pr_title(cur.id, cur.name),
                                state |-> "open", head |-> Str(cur.id)])
          /\ it' = [it EXCEPT !.creates = @ + 1]
          /\ created' = created \union {cur.id}
          /\ pc' = "loop"
          /\ UNCHANGED <<tracker_vars, gh_refs, am_in_progress, run_vars,
                         new_series, si, pi, verdict, ci, closed, series_changed,
                         alone_vars>>

\* the series loop is over: on to the clean up of the pull requests
EndSeriesLoop ==
    /\ pc = "loop"
    /\ si = Len(new_series)
    /\ pc' = "close"
    /\ ci' = 0
    /\ reh' = log_iteration
    /\ UNCHANGED <<tracker_vars, forge_vars, am_in_progress, run, args, has_token,
                   github_pulls, rerun, new_series, si, pi, verdict, it, closed,
                   created, series_changed, alone_vars>>

\* the pull request the clean-up loop is at
close_pr == github_pulls[ci + 1]
close_sid == get_pw_sid(gh_pulls[close_pr].title)

\* pw_sid in new_series, or dry_run: the pull request stays
KeepPr ==
    /\ pc = "close"
    /\ ci < Len(github_pulls)
    /\ close_sid \in Keys(new_series) \/ args.dry_run
    /\ ci' = ci + 1
    /\ reh' = IF close_sid \in Keys(new_series) THEN reh ELSE log_selected(close_pr)
    /\ UNCHANGED <<tracker_vars, forge_vars, am_in_progress, run, args, has_token,
                   github_pulls, rerun, new_series, si, pi, verdict, it, closed,
                   created, pc, series_changed, alone_vars>>

\* github_close_pr(pr.number): close, then look the head ref up and delete it;
\* get_git_ref raises when the ref is not there or the request fails
ClosePr ==
    /\ pc = "close"
    /\ ci < Len(github_pulls)
    /\ close_sid \notin Keys(new_series)
    /\ ~args.dry_run
    /\ closed' = closed \union {close_pr}
    /\ gh_pulls' = [gh_pulls EXCEPT ![close_pr].state = "closed"]
    /\ reh' = log_selected(close_pr)
    /\ \/ /\ gh_pulls[close_pr].head \in gh_refs
          /\ Ok(<<"get_git_ref", close_pr>>)
          /\ gh_refs' = gh_refs \ {gh_pulls[close_pr].head}
          /\ ci' = ci + 1
          /\ pc' = pc
       \/ /\ gh_pulls[close_pr].head \in gh_refs => Fails(<<"get_git_ref", close_pr>>)
          /\ pc' = "crashed"
          /\ UNCHANGED <<gh_refs, ci>>
    /\ UNCHANGED <<tracker_vars, am_in_progress, run, args, has_token,
                   github_pulls, rerun, new_series, si, pi, verdict, it, created,
                   series_changed, alone_vars>>

\* the clean-up loop is over
EndRun ==
    /\ pc = "close"
    /\ ci = Len(github_pulls)
    /\ pc' = "done"
    /\ UNCHANGED <<tracker_vars, forge_vars, am_in_progress, run_vars, loop_vars,
                   series_changed, alone_vars>>

Next ==
    \/ TrackerUpdate
    \/ StartRun
    \/ Discover
    \/ NextSeries
    \/ SeriesChecked
    \/ FilterSeries
    \/ PrExist
    \/ CheckoutBase
    \/ CheckoutNew
    \/ FetchMbox
    \/ GitAm
    \/ SubmitFail
    \/ AmAbort
    \/ SubmitPass
    \/ Notify
    \/ Applied
    \/ GitPush
    \/ CreatePr
    \/ EndSeriesLoop
    \/ KeepPr
    \/ ClosePr
    \/ EndRun

Spec == Init /\ [][Next]_vars

\* ------------------------------------------------------------------------
\* A rehearsal: main() with dry_run, then main() without it and without
\* no_update_check, over the same tracker and forge; a call made in both
\* runs (a GET, a checkout, git am, ...) is answered alike in both
\* ------------------------------------------------------------------------
MaxFails == 1

\* the calls that can fail
FailPoints ==
    {<<"get_patches", 0>>}
    \union {<<k, p>> : k \in {"get_patch", "get_mbox", "am", "post"}, p \in PatchIds}
    \union {<<k, sid>> : k \in {"checkout", "checkout_b", "push", "create"},
                         sid \in SeriesIds}
    \union {<<"get_git_ref", n>> : n \in 1..Len(InitPullCandidates)}

RECURSIVE SubsetsUpTo(_, _)
\* the subsets of S of n elements at most
SubsetsUpTo(S, n) ==
    IF n = 0 THEN {{}}
    ELSE LET r == SubsetsUpTo(S, n - 1)
         IN  r \union {x \union {p} : x \in r, p \in S}

RehInit ==
    /\ MainInit
    /\ \E f \in SubsetsUpTo(FailPoints, MaxFails) :
           reh = [on |-> TRUE, fail |-> f, decisions |-> <<>>, selected |-> {},
                  dry_decisions |-> <<>>, dry_selected |-> {}]
    /\ flt = FltNone
    /\ pg = PgNone
    /\ idx = IdxNone

\* the rehearsal: main() with --dry-run
StartDry ==
    /\ pc = "idle"
    /\ \E i, n \in BOOLEAN :
           begin_run([dry_run |-> TRUE, ignore_check |-> i, no_update_check |-> n])
    /\ rerun' = FALSE
    /\ reh' = reh

\* the run rehearsed: main() with the same options but the two flags; what
\* the dry run decided is kept for comparison
StartReal ==
    /\ pc \in {"done", "crashed"}
    /\ args.dry_run
    /\ begin_run([dry_run |-> FALSE, ignore_check |-> args.ignore_check,
                  no_update_check |-> FALSE])
    /\ rerun' = FALSE
    /\ reh' = [reh EXCEPT !.dry_decisions = reh.decisions,
                          !.dry_selected = reh.selected,
                          !.decisions = <<>>,
                          !.selected = {}]

NextRehearsal ==
    \/ StartDry
    \/ StartReal
    \/ Discover
    \/ NextSeries
    \/ SeriesChecked
    \/ FilterSeries
    \/ PrExist
    \/ CheckoutBase
    \/ CheckoutNew
    \/ FetchMbox
    \/ GitAm
    \/ SubmitFail
    \/ AmAbort
    \/ SubmitPass
    \/ Notify
    \/ Applied
    \/ GitPush
    \/ CreatePr
    \/ EndSeriesLoop
    \/ KeepPr
    \/ ClosePr
    \/ EndRun

SpecRehearsal == RehInit /\ [][NextRehearsal]_vars

\* ------------------------------------------------------------------------
\* The relevance filter called on its own: every name, pattern lists, diffs
\* and source tree of a small universe
\* ------------------------------------------------------------------------
NAME_BOTH == <<"R","e",":"," ","B","T"," ","e","z">>
NAME_EZ == <<"e","z">>
PAT_BT == <<"b","t">>
PAT_EZ == <<"e","z">>

FilterNames == {NAME_BT, NAME_BOTH, NAME_EZ, NAME_MISC}

PatternLists == {<<>>, <<PAT_BT>>, <<PAT_EZ>>, <<PAT_BT, PAT_EZ>>, <<PAT_EZ, PAT_BT>>}

LINE_NULL == <<"-","-","-"," ","/","d","e","v","/","n","u","l","l">>
LINE_BAR == <<"-","-","-"," ","a","/","f","o","o","/","b","a","r",".","c">>
LINE_X == <<"-","-","-"," ","a","/","x",".","c">>
LINE_NEW == <<"+","+","+"," ","b","/","n","e","w",".","c">>

\* a patch without diff, an empty one, one that adds a file, one that changes
\* a file, one that changes two files and adds one
FilterDiffs ==
    { NONE,
      <<>>,
      JoinLines(<<LINE_NULL, LINE_NEW>>),
      PatchDiff,
      JoinLines(<<LINE_X, LINE_NULL, LINE_BAR>>) }

FilterTrees == SUBSET {PATH_BAR, PATH_X}

FilterInputs ==
    [ pc : {"in"},
      name : FilterNames,
      detail : [include : PatternLists, exclude : PatternLists],
      diffs : UNION {[1..n -> FilterDiffs] : n \in 1..MaxDiffs},
      tree : FilterTrees ]

\* main() is not running
MainIdle ==
    /\ pw_active = {}
    /\ pw_name = [sid \in SeriesIds |-> NAME_BT]
    /\ pw_check = [p \in PatchIds |-> "pending"]
    /\ gh_pulls = <<>>
    /\ gh_refs = {}
    /\ am_in_progress = FALSE
    /\ run = 0
    /\ pc = "idle"
    /\ args = [dry_run |-> FALSE, ignore_check |-> FALSE, no_update_check |-> FALSE]
    /\ has_token = TRUE
    /\ github_pulls = <<>>
    /\ new_series = <<>>
    /\ si = 0
    /\ pi = 0
    /\ verdict = TRUE
    /\ it = IterNone
    /\ ci = 0
    /\ closed = {}
    /\ created = {}
    /\ rerun = FALSE
    /\ series_changed = FALSE
    /\ reh = RehOff

FilterInit ==
    /\ flt \in FilterInputs
    /\ pg = PgNone
    /\ idx = IdxNone
    /\ MainIdle

main_vars == <<tracker_vars, forge_vars, am_in_progress, run_vars, pc, loop_vars,
               series_changed>>

\* filter_repo_type(repo_detail, series, src_dir)
CallFilter ==
    /\ flt.pc = "in"
    /\ LET r == filter_repo_type(flt.detail, flt.name, flt.diffs, flt.tree)
       IN  flt' = [pc |-> "filtered", name |-> flt.name, detail |-> flt.detail,
                   diffs |-> flt.diffs, tree |-> flt.tree,
                   ret |-> r.ret, derived |-> r.derived]
    /\ UNCHANGED <<main_vars, pg, idx>>

\* series_get_file_list(series)
CallFileList ==
    /\ flt.pc = "in"
    /\ flt' = [pc |-> "listed", name |-> flt.name, detail |-> flt.detail,
               diffs |-> flt.diffs, tree |-> flt.tree,
               files |-> series_get_file_list(flt.diffs)]
    /\ UNCHANGED <<main_vars, pg, idx>>

NextFilter ==
    \/ CallFilter
    \/ CallFileList

SpecFilter == FilterInit /\ [][NextFilter]_vars

\* ------------------------------------------------------------------------
\* pw_get_patches_by_state on its own: the tracker answers the listing in
\* pages, each page carrying its patches and its links
\* ------------------------------------------------------------------------
MaxPages == 3
MaxPerPage == 2
MaxItems == 3

ItemIds == 1..MaxItems

\* what a page can hold of the patches in ids: patches, none of them twice
PageContents(ids) ==
    {c \in UNION {[1..n -> ids] : n \in 0..MaxPerPage} :
        \A i, j \in 1..Len(c) : c[i] = c[j] => i = j}

RECURSIVE ListingsOf(_, _)
\* the listings of n pages over the patches in ids, no patch on two pages
ListingsOf(n, ids) ==
    IF n = 0 THEN {<<>>}
    ELSE UNION {{<<c>> \o rest :
                    rest \in ListingsOf(n - 1, ids \ {c[i] : i \in 1..Len(c)})} :
                c \in PageContents(ids)}

\* the listings: one page at least
PageListings == UNION {ListingsOf(n, ItemIds) : n \in 1..MaxPages}

\* resp.links of page i of n: the Link header names the neighbours
page_links(i, n) ==
    (IF i > 1 THEN {<<"prev", i - 1>>} ELSE {})
    \union (IF i < n THEN {<<"next", i + 1>>} ELSE {})

\* "next" in resp.links
has_next(links) == \E l \in links : l[1] = "next"

\* resp.links["next"]["url"]
next_url(links) == (CHOOSE l \in links : l[1] = "next")[2]

page_append_overwrites(patches, page) == page

\* patches = patches + resp.json()
page_append(patches, page) == patches \o page

PagesInit ==
    /\ \E l \in PageListings :
           pg = [pc |-> "in",
                 pages |-> [i \in 1..Len(l) |->
                              [json |-> l[i], links |-> page_links(i, Len(l))]]]
    /\ flt = FltNone
    /\ idx = IdxNone
    /\ MainIdle

\* patches = [] and the url of the query
CallPages ==
    /\ pg.pc = "in"
    /\ pg' = [pc |-> "get", pages |-> pg.pages, url |-> 1, patches |-> <<>>,
              requested |-> <<>>]
    /\ UNCHANGED <<main_vars, flt, idx>>

\* one turn of the while loop: resp = requests_url(url), which raises on any
\* answer but 200; the page is added; the next link is followed or the loop
\* is left and the patches are returned
PageGet ==
    /\ pg.pc = "get"
    /\ \/ pg' = [pg EXCEPT !.pc = "raised", !.requested = Append(@, pg.url)]
       \/ LET resp == pg.pages[pg.url]
              got == [pg EXCEPT !.patches = page_append(@, resp.json),
                                !.requested = Append(@, pg.url)]
          IN  IF ~has_next(resp.links)
              THEN pg' = [got EXCEPT !.pc = "returned"]
              ELSE pg' = [got EXCEPT !.url = next_url(resp.links)]
    /\ UNCHANGED <<main_vars, flt, idx>>

NextPages ==
    \/ CallPages
    \/ PageGet

SpecPages == PagesInit /\ [][NextPages]_vars

\* ------------------------------------------------------------------------
\* get_new_series on its own, over what pw_get_patches_by_state returned:
\* patches with no series key, with an empty series list, with one series
\* or with several
\* ------------------------------------------------------------------------
MaxListed == 3

\* what a listed patch says of its series: no series key, or a list of
\* none, one or two series
ListedSeries ==
    {[key |-> FALSE, series |-> <<>>]}
    \union {[key |-> TRUE, series |-> l] :
               l \in {<<>>} \union {<<a>> : a \in SeriesIds}
                           \union {<<a, b>> : a, b \in SeriesIds}}

\* a listed patch
listed_patch(id, listed) ==
    IF listed.key THEN [id |-> id, series |-> listed.series] ELSE [id |-> id]

IndexInit ==
    /\ \E l \in UNION {[1..n -> ListedSeries] : n \in 0..MaxListed} :
           idx = [pc |-> "in",
                  patches |-> [i \in 1..Len(l) |-> listed_patch(i, l[i])]]
    /\ flt = FltNone
    /\ pg = PgNone
    /\ MainIdle

\* series_dict = {}, patches = pw_get_patches_by_state(states), and the
\* return of the empty index when no patch is listed
CallIndex ==
    /\ idx.pc = "in"
    /\ idx' = [pc |-> IF Len(idx.patches) = 0 THEN "returned" ELSE "scan",
               patches |-> idx.patches, i |-> 1, dict |-> <<>>, fetched |-> <<>>]
    /\ UNCHANGED <<main_vars, flt, pg>>

\* one turn of the for loop over the patches: every series of the patch
\* that is not in series_dict yet is fetched with pw_get_series, which
\* raises on any answer but 200, and added
ScanPatch ==
    /\ idx.pc = "scan"
    /\ LET dict == add_series(idx.dict, patch_series(idx.patches[idx.i]), pw_name)
           new == [k \in 1..(Len(dict) - Len(idx.dict)) |->
                      [id |-> dict[Len(idx.dict) + k].id, at |-> idx.i]]
       IN  \/ \E k \in 1..Len(new) :
                  idx' = [idx EXCEPT !.pc = "raised",
                                    !.dict = SubSeq(dict, 1, Len(idx.dict) + k - 1),
                                    !.fetched = @ \o SubSeq(new, 1, k)]
           \/ idx' = [idx EXCEPT !.dict = dict,
                                 !.fetched = @ \o new,
                                 !.i = @ + 1,
                                 !.pc = IF idx.i = Len(idx.patches)
                                        THEN "returned" ELSE "scan"]
    /\ UNCHANGED <<main_vars, flt, pg>>

NextIndex ==
    \/ CallIndex
    \/ ScanPatch

SpecIndex == IndexInit /\ [][NextIndex]_vars

\* ------------------------------------------------------------------------
\* Properties of the relevance filter
\* ------------------------------------------------------------------------
\* whether the name contains one of the patterns, whatever the case of the
\* letters
NameMatches(patterns, name) ==
    \E p \in {patterns[i] : i \in 1..Len(patterns)} :
        \E i \in 0..(Len(name) - Len(p)) :
            \A j \in 1..Len(p) : Lower(name[i + j]) = Lower(p[j])

\* C8: a name that matches an exclude pattern is filtered out even when it
\* matches an include pattern too; a name that matches an include pattern and
\* no exclude pattern is accepted without deriving a file list; the file
\* list is derived exactly for the names that match neither.
C8_FilterPrecedence ==
    flt.pc = "filtered" =>
        LET excl == NameMatches(flt.detail.exclude, flt.name)
            incl == NameMatches(flt.detail.include, flt.name)
        IN  /\ excl => (flt.ret = FALSE /\ ~flt.derived)
            /\ (~excl /\ incl) => (flt.ret = TRUE /\ ~flt.derived)
            /\ flt.derived <=> (~excl /\ ~incl)

\* a name matching an exclude and an include pattern, the include pattern
\* declared first, was filtered out
C8_Witness ==
    /\ flt.pc = "filtered"
    /\ flt.name = NAME_BOTH
    /\ flt.detail.include = <<PAT_BT, PAT_EZ>>
    /\ flt.detail.exclude = <<PAT_EZ>>
    /\ flt.ret = FALSE

\* the old-file path of a '--- ' line, the null device excluded, as the
\* comments of patch_get_file_list describe it
OldFileOfLine(line) ==
    IF StartsWith(line, OLD_FILE_MARK) /\ From(line, Len(OLD_FILE_MARK)) # <<"/","d","e","v","/","n","u","l","l">>
    THEN <<From(line, Find(line, SLASH) + 1)>>
    ELSE <<>>

OldFilesOfPatch(patch) ==
    IF patch = NONE THEN <<>>
    ELSE LET lines == Split(patch, "\n")
         IN  Concat([i \in 1..Len(lines) |-> OldFileOfLine(lines[i])])

OldFilesOfSeries(diffs) ==
    Concat([i \in 1..Len(diffs) |-> OldFilesOfPatch(diffs[i])])

\* C9: the file list of a series is the ordered list, duplicates kept, of the
\* old-file paths of the '--- ' lines of its diffs, without the lines whose
\* old file is /dev/null: '--- a/foo/bar.c' gives 'foo/bar.c'.
C9_FileListExtraction ==
    flt.pc = "listed" => flt.files = OldFilesOfSeries(flt.diffs)

\* C10: for a name matching no pattern, the filter answers true exactly when
\* the diffs name an old file other than /dev/null and every old file named
\* exists under the source directory.
C10_FilePathFallback ==
    (/\ flt.pc = "filtered"
     /\ ~NameMatches(flt.detail.exclude, flt.name)
     /\ ~NameMatches(flt.detail.include, flt.name))
    => LET files == OldFilesOfSeries(flt.diffs)
       IN  flt.ret <=> (/\ Len(files) > 0
                        /\ \A i \in 1..Len(files) : files[i] \in flt.tree)

\* ------------------------------------------------------------------------
\* Properties of the runs
\* ------------------------------------------------------------------------
\* the open pull requests whose title starts with the tag [PW_SID:<id>]
OpenTagged(id) ==
    {n \in OpenPulls(gh_pulls) :
        has_pw_sid(gh_pulls[n].title) /\ get_pw_sid(gh_pulls[n].title) = id}

\* the pull requests of the cached list whose title starts with the tag
\* [PW_SID:<id>]
CachedTagged(id) ==
    {n \in {github_pulls[i] : i \in 1..Len(github_pulls)} :
        has_pw_sid(gh_pulls[n].title) /\ get_pw_sid(gh_pulls[n].title) = id}

\* C1 as claimed: a full run that follows a full run, the tracker's series
\* set unchanged and the forge as the first run left it, calls create_pr for
\* no series.
C1_SecondRunCreatesNothing == rerun => created = {}

\* C1 as amended: such a second run calls create_pr for no series of which
\* the first run left an open pull request carrying its tag.
C1_SecondRunCreatesNoSecondPr ==
    rerun => \A id \in created : CachedTagged(id) = {}

\* the second run has skipped series 12 because of the pull request the first
\* run created for it
C1_Witness ==
    /\ rerun
    /\ pc = "loop"
    /\ it.sid = 12
    /\ it.decision = "pr_exists"
    /\ CachedTagged(12) # {}

\* C2: whatever the runs do, no series id ever has two open pull requests
\* carrying its tag.
C2_AtMostOnePr ==
    \A id \in SeriesIds \union GoneSeriesIds : Cardinality(OpenTagged(id)) <= 1

\* two runs are over, the first created the pull request of series 12 and
\* the second, which did not skip the series as checked, found it
C2_Witness ==
    /\ run = 2
    /\ pc = "done"
    /\ args.ignore_check
    /\ it.sid = 12
    /\ it.decision = "pr_exists"
    /\ Cardinality(OpenTagged(12)) = 1

\* github_close_pr was called on the pull request and did all of its work
ClosedAndDeleted(n) ==
    /\ n \in closed
    /\ gh_pulls[n].state = "closed"
    /\ gh_pulls[n].head \notin gh_refs

\* neither closed nor its branch deleted
Untouched(n) ==
    /\ n \notin closed
    /\ gh_pulls[n].state = "open"
    /\ gh_pulls[n].head \in gh_refs

\* C3: at the end of a run that is no dry run, a cached pull request with a
\* well-formed tag [PW_SID:n] was closed and its branch deleted if n is no
\* key of new_series, and is untouched if n is a key.
C3_ClosingConvergence ==
    (pc = "done" /\ ~args.dry_run) =>
        \A i \in 1..Len(github_pulls) :
            LET n == github_pulls[i]
                title == gh_pulls[n].title
            IN  has_pw_sid(title) =>
                    IF get_pw_sid(title) \in Keys(new_series)
                    THEN Untouched(n)
                    ELSE ClosedAndDeleted(n)

\* C4: a cached pull request whose title does not start with a well-formed
\* tag is never closed and its branch is never deleted.
C4_UntaggedUntouched ==
    \A i \in 1..Len(github_pulls) :
        ~has_pw_sid(gh_pulls[github_pulls[i]].title) => Untouched(github_pulls[i])

\* C5: every run that gets through its discovery and to its end has closed
\* every open pull request tagged with a series id that is no key of
\* new_series, the empty new_series included (dry runs close nothing).
C5_ClosingPassEveryRun ==
    (pc = "done" /\ ~args.dry_run) =>
        \A id \in (SeriesIds \union GoneSeriesIds) \ Keys(new_series) :
            CachedTagged(id) \subseteq closed

\* the iteration of a series whose git am failed is over: the loop is back at
\* its head or an exception has ended the run
AmFailedIterationOver ==
    /\ it.am_failed > 0
    /\ pc \in {"loop", "crashed"}

\* C6: with no flag set and the token present, the iteration of a series
\* whose k-th patch fails git am posts exactly one fail check, for the k-th
\* patch, aborts once, pushes nothing, creates no pull request and composes
\* one email.
C6_ApplyFailurePath ==
    (/\ AmFailedIterationOver
     /\ ~args.dry_run /\ ~args.ignore_check /\ ~args.no_update_check
     /\ has_token)
    => /\ it.fail_posts = <<series_patches(it.sid)[it.am_failed]>>
       /\ it.aborts = 1
       /\ it.pushes = 0
       /\ it.creates = 0
       /\ it.emails = 1

\* C7: once git am has failed, control does not leave the iteration of the
\* series without git am --abort having run: no mailbox apply is left in
\* progress.
C7_AbortAfterFailedAm ==
    AmFailedIterationOver => (it.aborts = 1 /\ ~am_in_progress)

\* ------------------------------------------------------------------------
\* C11: a series fetched without a name that gets past the check guard has
\* the name of its first patch from the relevance filter on: the filter is
\* never called with the null name, the name kept for the series is the one
\* the filter saw, and no pull request title and no notification is made
\* from a null name.
C11_NullNameNormalised ==
    /\ it.filter_name # NONE
    /\ it.filter_name # <<>> =>
           /\ new_series[si].name = it.filter_name
           /\ it.filter_name =
                  (IF pw_name[it.sid] = NONE THEN PatchName ELSE pw_name[it.sid])
    /\ \A n \in 1..Len(gh_pulls) : \A s \in SeriesIds :
           gh_pulls[n].title # create_pr_title(s, NONE)
    /\ it.emails > 0 => new_series[si].name # NONE

\* a series without a name got its pull request under its first patch's name
C11_Witness ==
    /\ it.sid = 1
    /\ pw_name[1] = NONE
    /\ it.filter_name = PatchName
    /\ it.creates = 1
    /\ gh_pulls[Len(gh_pulls)].title = create_pr_title(1, PatchName)

\* ------------------------------------------------------------------------
\* the patches of all pages of the listing, page after page
AllPages(pages) == Concat([i \in 1..Len(pages) |-> pages[i].json])

\* how often x occurs in seq
Occurrences(seq, x) == Cardinality({i \in 1..Len(seq) : seq[i] = x})

\* C12: over a chain of pages that share no patch, pw_get_patches_by_state
\* never asks for a page twice nor for more pages than the chain has, and
\* when it returns it has asked for every page once, in chain order, and
\* returns the pages' patches concatenated in page order, every patch once.
C12_PaginationComplete ==
    /\ pg.pc \in {"get", "raised", "returned"} =>
           /\ Len(pg.requested) <= Len(pg.pages)
           /\ \A i \in 1..Len(pg.requested) : pg.requested[i] = i
    /\ pg.pc = "returned" =>
           /\ Len(pg.requested) = Len(pg.pages)
           /\ pg.patches = AllPages(pg.pages)
           /\ \A x \in ItemIds :
                  Occurrences(pg.patches, x) =
                      (IF \E i \in 1..Len(pg.pages) :
                             Occurrences(pg.pages[i].json, x) > 0
                       THEN 1 ELSE 0)

\* three pages, the middle one empty, were read to the end
C12_Witness ==
    /\ pg.pc = "returned"
    /\ Len(pg.pages) = MaxPages
    /\ pg.pages[2].json = <<>>
    /\ Len(pg.patches) = MaxItems

\* ------------------------------------------------------------------------
\* C13: in a dry run no side-effecting call is made: pw_submit_check is not
\* called (and nothing is posted), email_compose is not called, nothing is
\* pushed, no pull request is created, and no pull request is closed.
C13_DryRunNoSideEffects ==
    args.dry_run =>
        /\ it.check_calls = <<>>
        /\ it.fail_posts = <<>>
        /\ it.pass_posts = <<>>
        /\ it.emails = 0
        /\ it.pushes = 0
        /\ it.creates = 0
        /\ created = {}
        /\ closed = {}

\* a dry run with a token at hand came to its end after a series failed to
\* apply, with an open pull request whose series is not in the index
C13_Witness ==
    /\ args.dry_run
    /\ ~args.no_update_check
    /\ has_token
    /\ pc = "done"
    /\ it.decision = "applied_fail"
    /\ \E i \in 1..Len(github_pulls) :
           get_pw_sid(gh_pulls[github_pulls[i]].title) \notin Keys(new_series)

\* ------------------------------------------------------------------------
\* the run rehearsed by a dry run is over
RehearsedRunOver ==
    /\ reh.on
    /\ ~args.dry_run
    /\ pc \in {"done", "crashed"}

\* C14: a dry run and a full run over the same tracker state, forge state
\* and answers of git, tracker and forge take the same decision for every
\* series, in the same order, and select the same pull requests for closing.
C14_DryRunFaithful ==
    RehearsedRunOver =>
        /\ reh.decisions = reh.dry_decisions
        /\ reh.selected = reh.dry_selected

\* ------------------------------------------------------------------------
\* the run ended inside the series loop: an iteration had begun and the
\* clean-up of the pull requests had not closed anything yet
CrashedInSeriesLoop ==
    /\ pc = "crashed"
    /\ si > 0
    /\ closed = {}

\* C15: no failure met while a series is processed (a GET of a patch or of
\* a mailbox that is not answered 200, a check submission that is not
\* answered 201, a failed checkout, apply or push) ends the run: the run
\* never ends inside the series loop.
C15_SeriesFailureDoesNotAbort == ~CrashedInSeriesLoop

\* ------------------------------------------------------------------------
\* C16: create_pr is called for a series only after git am succeeded on
\* every patch of the series and git push of its branch succeeded; after a
\* failed push no pull request is created and no notification is sent for
\* the series, and the run goes on with the series loop.
C16_PrOnlyAfterPush ==
    /\ (pc = "create" \/ it.creates > 0) =>
           /\ it.am_tried = series_patches(it.sid)
           /\ it.am_failed = 0
           /\ it.pushes = 1
           /\ it.push_ok
    /\ (it.pushes > 0 /\ ~it.push_ok) =>
           /\ pc # "create"
           /\ it.creates = 0
           /\ it.emails = 0
           /\ it.sid \notin created
           /\ ~CrashedInSeriesLoop

\* the push of a series failed and the loop stands before the next series
C16_Witness ==
    /\ it.pushes = 1
    /\ ~it.push_ok
    /\ it.am_tried = series_patches(it.sid)
    /\ pc = "loop"
    /\ si < Len(new_series)

\* ------------------------------------------------------------------------
\* the step the series loop takes after a check submission that succeeded
AfterSubmit ==
    IF pc = "check_fail" THEN "abort"
    ELSE IF pi < Len(cur_patches) THEN "fetch" ELSE "verdict"

\* C17: a call of pw_submit_check without PATCHWORK_TOKEN posts nothing,
\* changes no check on the tracker, raises nothing and is followed by the
\* step that follows a successful submission; with the token one POST is
\* made, and the call raises exactly when the POST is not answered 201.
C17_SubmitWithoutToken ==
    [][(pc \in {"check_fail", "check_pass"} /\ ~skip_submit) =>
          /\ Len(it'.check_calls) = Len(it.check_calls) + 1
          /\ IF ~has_token
             THEN /\ it'.fail_posts = it.fail_posts
                  /\ it'.pass_posts = it.pass_posts
                  /\ it'.last_post = it.last_post
                  /\ pw_check' = pw_check
                  /\ pc' = AfterSubmit
             ELSE /\ Len(it'.fail_posts) + Len(it'.pass_posts) =
                         Len(it.fail_posts) + Len(it.pass_posts) + 1
                  /\ it'.last_post \in {"201", "error"}
                  /\ it'.last_post = "201" => pc' = AfterSubmit
                  /\ it'.last_post = "error" <=> pc' = "crashed"]_vars

\* without a token both patches of a series applied, pw_submit_check was
\* called for each, nothing was posted and the series went on to its push
C17_Witness ==
    /\ ~has_token
    /\ Len(it.check_calls) = MaxPatches
    /\ it.pass_posts = <<>>
    /\ it.last_post = "none"
    /\ it.decision = "applied_success"
    /\ pc = "push"

\* ------------------------------------------------------------------------
IsPrefix(a, b) ==
    /\ Len(a) <= Len(b)
    /\ \A i \in 1..Len(a) : a[i] = b[i]

\* the patches the check reports of the iteration are about, in call order
CheckedPatches == [i \in 1..Len(it.check_calls) |-> it.check_calls[i][1]]

\* C18: the patches of a series are fetched and given to git am in the
\* order of the series' patch list, one after the other, and the first
\* failing git am is the last: no later patch is fetched, applied or given
\* a check report.
C18_PatchesInOrderUntilFailure ==
    /\ IsPrefix(it.fetched, series_patches(it.sid))
    /\ IsPrefix(it.am_tried, it.fetched)
    /\ Len(it.fetched) <= Len(it.am_tried) + 1
    /\ IsPrefix(CheckedPatches, it.am_tried)
    /\ it.am_failed > 0 =>
           /\ Len(it.fetched) = it.am_failed
           /\ Len(it.am_tried) = it.am_failed

\* the first of two patches failed to apply and the iteration is over: the
\* second patch was not touched
C18_Witness ==
    /\ it.sid = 1
    /\ it.am_failed = 1
    /\ it.fetched = <<series_patches(1)[1]>>
    /\ Len(series_patches(1)) > 1
    /\ it.decision = "applied_fail"
    /\ pc = "loop"

\* ------------------------------------------------------------------------
\* the iteration made its way through the patch loop and is marked
IterationFailed == it.decision = "applied_fail"
IterationSucceeded == it.decision = "applied_success"

\* the patches pw_submit_check was called for with this state
CallsWith(state) ==
    {it.check_calls[i][1] : i \in {j \in 1..Len(it.check_calls) :
                                      it.check_calls[j][2] = state}}

\* pass reports for the first n patches of the series, in order
PassCalls(sid, n) == [i \in 1..n |-> <<series_patches(sid)[i], CHECK_PASS>>]

\* C19 as claimed: with neither flag set, a series marked failed has no pass
\* check submitted for any of its patches, and a series whose patches all
\* applied has one pass check per patch and no fail check.
C19_PassOnlyOnFullSuccess ==
    ~skip_submit =>
        /\ IterationFailed => CallsWith(CHECK_PASS) = {}
        /\ IterationSucceeded =>
               it.check_calls = PassCalls(it.sid, NumPatches(it.sid))

\* C19, amended: with neither flag set, a pass check is submitted for a
\* patch as soon as its git am succeeded, so a series marked failed at its
\* k-th patch has one pass check for each of the k-1 patches before it and
\* one fail check, for the k-th patch, and nothing after it; a series whose
\* patches all applied has one pass check per patch, in patch order, and no
\* fail check. With dry_run or no_update_check no check is submitted.
C19_PassPerAppliedPatch ==
    /\ skip_submit => it.check_calls = <<>>
    /\ ~skip_submit =>
           /\ IterationFailed =>
                  it.check_calls =
                      PassCalls(it.sid, it.am_failed - 1)
                      \o <<<<series_patches(it.sid)[it.am_failed], CHECK_FAIL>>>>
           /\ IterationSucceeded =>
                  /\ it.check_calls = PassCalls(it.sid, NumPatches(it.sid))
                  /\ CallsWith(CHECK_FAIL) = {}

\* the second patch of a series failed after the first had applied and got
\* its pass check
C19_Witness ==
    /\ ~skip_submit
    /\ IterationFailed
    /\ it.sid = 1
    /\ it.am_failed = MaxPatches
    /\ series_patches(1)[1] \in CallsWith(CHECK_PASS)
    /\ CallsWith(CHECK_FAIL) = {series_patches(1)[MaxPatches]}

\* ------------------------------------------------------------------------
\* the iteration reached the apply step: a git checkout was run
ReachedApply == it.checkouts > 0

\* the iteration made no call on the working tree, the tracker's checks,
\* the remote, the forge or the mail server
NothingDone ==
    /\ it.checkouts = 0
    /\ it.fetched = <<>>
    /\ it.am_tried = <<>>
    /\ it.aborts = 0
    /\ it.check_calls = <<>>
    /\ it.pushes = 0
    /\ it.creates = 0
    /\ it.emails = 0

\* filter_repo_type on the series of the iteration
CurRelevant ==
    filter_repo_type(RepoDetail, cur.name,
                     [k \in 1..Len(cur_patches) |-> PatchDiff], SrcTree).ret

\* C20: a series reaches the apply step only after its three guards were
\* evaluated in the order series_checked (left out under ignore_check),
\* filter_repo_type, github_pr_exist, and all let it through: the check of
\* its first patch was pending or ignore_check is set, filter_repo_type
\* returned true and github_pr_exist returned false. A series stopped by a
\* guard is stopped by the first guard that fails and nothing is done for
\* it: no checkout, fetch, git am, check submission, push, pull request or
\* notification.
C20_GuardsBeforeApply ==
    /\ ReachedApply =>
           /\ it.guards = (IF args.ignore_check THEN <<>> ELSE <<"series_checked">>)
                           \o <<"filter_repo_type", "github_pr_exist">>
           /\ args.ignore_check \/ it.check_read = "pending"
           /\ CurRelevant
           /\ ~github_pr_exist(it.sid, pull_titles)
    /\ it.decision = "checked" =>
           /\ NothingDone
           /\ ~args.ignore_check
           /\ it.guards = <<"series_checked">>
           /\ it.check_read # "pending"
    /\ it.decision = "irrelevant" =>
           /\ NothingDone
           /\ it.guards[Len(it.guards)] = "filter_repo_type"
           /\ ~CurRelevant
    /\ it.decision = "pr_exists" =>
           /\ NothingDone
           /\ it.guards[Len(it.guards)] = "github_pr_exist"
           /\ CurRelevant
           /\ github_pr_exist(it.sid, pull_titles)

\* a series whose check was pending, that is relevant and has no pull
\* request went through the three guards and had its branch checked out
C20_Witness ==
    /\ ReachedApply
    /\ ~args.ignore_check
    /\ Len(it.guards) = 3
    /\ it.check_read = "pending"
    /\ pc = "fetch"

\* ------------------------------------------------------------------------
\* the two checkouts that make the fresh branch of a series, both successful
FreshBranch(sid) ==
    <<[branch |-> BASE_BRANCH, create_branch |-> FALSE, ok |-> TRUE],
      [branch |-> Str(sid), create_branch |-> TRUE, ok |-> TRUE]>>

\* a checkout of the iteration failed
CheckoutFailed ==
    \E i \in 1..Len(it.checked_out) : ~it.checked_out[i].ok

\* C21: a patch of a series is fetched and given to git am only after, in
\* the same iteration, the base branch was checked out and then the branch
\* named by the series id was created, both with success and in this order;
\* after a failed checkout nothing more is done for the series (no further
\* checkout, no fetch, git am, check, push, pull request or notification)
\* and the run goes on with the series loop.
C21_FreshBranchBeforeApply ==
    /\ (pc \in {"fetch", "am"} \/ it.fetched # <<>> \/ it.am_tried # <<>>) =>
           it.checked_out = FreshBranch(it.sid)
    /\ CheckoutFailed =>
           /\ ~it.checked_out[Len(it.checked_out)].ok
           /\ \A i \in 1..(Len(it.checked_out) - 1) : it.checked_out[i].ok
           /\ it.decision = "checkout_failed"
           /\ it.fetched = <<>>
           /\ it.am_tried = <<>>
           /\ it.aborts = 0
           /\ it.check_calls = <<>>
           /\ it.pushes = 0
           /\ it.creates = 0
           /\ it.emails = 0
           /\ ~CrashedInSeriesLoop
    /\ it.decision = "checkout_failed" <=> CheckoutFailed

\* the base branch was checked out, the branch of the series could not be
\* created, and the loop stands before the next series
C21_Witness ==
    /\ Len(it.checked_out) = 2
    /\ it.checked_out[1].ok
    /\ ~it.checked_out[2].ok
    /\ it.checked_out[2].branch = Str(it.sid)
    /\ pc = "loop"
    /\ si < Len(new_series)

\* ------------------------------------------------------------------------
\* the run ended inside the clean-up of the pull requests, in a call of
\* github_close_pr
CrashedInClosing ==
    /\ pc = "crashed"
    /\ closed # {}

\* every pull request github_close_pr was called on is closed, and no pull
\* request of the cached list is open with its head branch gone
ClosedBeforeDeleted ==
    /\ \A n \in closed : gh_pulls[n].state = "closed"
    /\ \A i \in 1..Len(github_pulls) :
           gh_pulls[github_pulls[i]].head \notin gh_refs
               => gh_pulls[github_pulls[i]].state = "closed"

\* C22: github_close_pr closes the pull request before it deletes the head
\* branch, so no head branch is gone while its pull request is open, and a
\* branch deletion that fails is swallowed: the run never ends inside the
\* clean-up of the pull requests.
C22_CloseThenDeleteSwallowed ==
    /\ ClosedBeforeDeleted
    /\ ~CrashedInClosing

\* ------------------------------------------------------------------------
\* the series ids a listed patch names, none for a patch without series
SeriesOf(patch) ==
    IF "series" \in DOMAIN patch
    THEN {patch.series[k] : k \in 1..Len(patch.series)}
    ELSE {}

\* the series ids named by one listed patch at least
Referenced(patches) == UNION {SeriesOf(patches[i]) : i \in 1..Len(patches)}

\* the first listed patch that names the series
FirstReference(patches, sid) ==
    CHOOSE i \in 1..Len(patches) :
        /\ sid \in SeriesOf(patches[i])
        /\ \A j \in 1..(i - 1) : sid \notin SeriesOf(patches[j])

\* the calls of pw_get_series for this series
FetchesOf(sid) == {k \in 1..Len(idx.fetched) : idx.fetched[k].id = sid}

\* C23: get_new_series never fetches a series twice and fetches it at the
\* first patch that names it; when it returns, every series named by a
\* listed patch was fetched exactly once, the keys of the index are the
\* series named by one patch at least, and a patch without series added
\* nothing.
C23_SeriesIndex ==
    /\ idx.pc \in {"scan", "raised", "returned"} =>
           \A sid \in SeriesIds :
               /\ Cardinality(FetchesOf(sid)) <= 1
               /\ \A k \in FetchesOf(sid) :
                      idx.fetched[k].at = FirstReference(idx.patches, sid)
    /\ idx.pc = "returned" =>
           /\ Keys(idx.dict) = Referenced(idx.patches)
           /\ Len(idx.dict) = Cardinality(Referenced(idx.patches))
           /\ \A sid \in SeriesIds :
                  Cardinality(FetchesOf(sid)) =
                      (IF sid \in Referenced(idx.patches) THEN 1 ELSE 0)
           /\ idx.dict = get_new_series(idx.patches, pw_name)

\* the index of a listing where a patch without series comes first and two
\* later patches name the same series
C23_Witness ==
    /\ idx.pc = "returned"
    /\ Len(idx.patches) = MaxListed
    /\ SeriesOf(idx.patches[1]) = {}
    /\ "series" \notin DOMAIN idx.patches[1]
    /\ \E sid \in SeriesIds :
           /\ sid \in SeriesOf(idx.patches[2])
           /\ sid \in SeriesOf(idx.patches[MaxListed])
    /\ Len(idx.dict) > 0

\* ------------------------------------------------------------------------
\* an open pull request of the cached list carries the tag of exactly this
\* series: get_pw_sid reads the id back from its title
TaggedExactly(sid) ==
    \E i \in 1..Len(pull_titles) : get_pw_sid(pull_titles[i]) = sid

\* C24: whenever the existing-PR guard was evaluated for a series, the
\* series was skipped as having a pull request if and only if an open pull
\* request of the cached list carries the tag of exactly its id; a pull
\* request tagged for another id never has the series skipped.
C24_PrExistExact ==
    (it.guards # <<>> /\ it.guards[Len(it.guards)] = "github_pr_exist") =>
        (it.decision = "pr_exists" <=> TaggedExactly(it.sid))

====
